---- MODULE Spec2Model ----
(***************************************************************************)
(* Model of the SDE-EDG data loader (datasets/sine.py) and of the feature  *)
(* extractors (network/model_func.py).                                     *)
(*                                                                         *)
(* Two state machines share the module:                                    *)
(*   Spec    - the constructor of MultipleEnvironmentSine / ToySine,       *)
(*             statement block by statement block;                        *)
(*   SpecNet - construction, forward, train and eval of the feature        *)
(*             extractors.                                                 *)
(*                                                                         *)
(* Numbers.  A floating-point value is modelled by the real number it      *)
(* stands for, written [num |-> a, den2 |-> b] for a / sqrt(b); the raw    *)
(* integer v is [num |-> v, den2 |-> 1] and 0/0 (NaN) is                   *)
(* [num |-> 0, den2 |-> 0].  An array carries its dtype, so that astype    *)
(* and Tensor.float()/.long() are visible.                                 *)
(***************************************************************************)
EXTENDS Integers, Sequences, FiniteSets, TLC

\* ------------------------------------------------------------------ bounds
MaxSamples == 2          \* longest cached pickle that is enumerated
NumEnvs    == 2          \* len(environments) of a plain MultipleEnvironmentSine
NCols      == 2          \* feature columns of the data array
MaxVal     == 1          \* raw data values are 0..MaxVal
MaxLabel   == 1          \* labels are 0..MaxLabel

\* ------------------------------------------------------- program constants
num_domains == 24        \* ToySine.__init__

\* ------------------------------------------------------------------- state
VARIABLES
    root,          \* argument root: "None", "missing" (no such path), "file"
    environments,  \* argument environments, a list 0..N-1 given by its length N
    cache,         \* content of the pickle at root (never modified)
    pc,            \* position in MultipleEnvironmentSine.__init__
    exc,           \* exception that left the constructor, or "none"
    attrs,         \* names of the attributes of self assigned so far
    data_pkl,      \* self.data_pkl
    datasets,      \* self.datasets
    load_calls,    \* number of calls of _load_cache
    norm_count,    \* number of times the normalization block ran
    net,           \* the feature extractor under construction / in use
    training,      \* training flag of every module of the extractor
    out,           \* result of the last forward call
    last_call      \* the last train/eval call on the extractor, or "none"

sineVars == <<root, environments, cache, pc, exc, attrs, data_pkl, datasets,
              load_calls, norm_count>>
netVars  == <<net, training, out, last_call>>
vars     == <<root, environments, cache, pc, exc, attrs, data_pkl, datasets,
              load_calls, norm_count, net, training, out, last_call>>

\* ------------------------------------------------------------ numeric help
Raw(v) == [num |-> v, den2 |-> 1]

Sgn(a) == IF a > 0 THEN 1 ELSE IF a < 0 THEN -1 ELSE 0

RECURSIVE SumSeq(_)
SumSeq(s) == IF s = <<>> THEN 0 ELSE Head(s) + SumSeq(Tail(s))

\* ------------------------------------------------------------ numpy arrays
\* ndarray.mean(0) and ndarray.std(0) of column c of a raw array, kept as the
\* exact sums they are computed from: mean = s/n, std = sqrt(n*ss - s*s)/n.
ColStats(rows, c) ==
    [n  |-> Len(rows),
     s  |-> SumSeq([i \in 1..Len(rows) |-> rows[i][c].num]),
     ss |-> SumSeq([i \in 1..Len(rows) |-> rows[i][c].num * rows[i][c].num])]

\* (v - mean) / std  =  (n*v - s) / sqrt(n*ss - s*s); 0/0 when std is 0.
Standardize(v, st) ==
    IF st.n * st.ss - st.s * st.s = 0
    THEN [num |-> st.n * v.num - st.s, den2 |-> 0]
    ELSE [num |-> st.n * v.num - st.s, den2 |-> st.n * st.ss - st.s * st.s]

\* a selection that hands the selected elements back in reverse order
BoolIndexReversed(vals, idx) ==
    LET F[i \in 0..Len(vals)] ==
            IF i = 0 THEN <<>>
            ELSE IF idx[i] THEN <<vals[i]>> \o F[i-1] ELSE F[i-1]
    IN  F[Len(vals)]

\* arr[idx] for a boolean mask idx: the selected elements in array order
BoolIndex(vals, idx) ==
    LET F[i \in 0..Len(vals)] ==
            IF i = 0 THEN <<>>
            ELSE IF idx[i] THEN Append(F[i-1], vals[i]) ELSE F[i-1]
    IN  F[Len(vals)]

AsType(arr, dtype) == [dtype |-> dtype, vals |-> arr.vals]

\* --------------------------------------------------------------- the cache
Rows    == [1..NCols -> {Raw(v) : v \in 0..MaxVal}]
Domains == 0..NumEnvs     \* NumEnvs itself is not a domain of range(NumEnvs)
Labels  == 0..MaxLabel

Pickles ==
    UNION {
      { [data   |-> [dtype |-> "float64", vals |-> d],
         domain |-> [dtype |-> "int64",   vals |-> g],
         label  |-> [dtype |-> "int64",   vals |-> l]] :
            d \in [1..n -> Rows], g \in [1..n -> Domains], l \in [1..n -> Labels] }
      : n \in 0..MaxSamples }

NoPickle ==
    [data   |-> [dtype |-> "float64", vals |-> <<>>],
     domain |-> [dtype |-> "int64",   vals |-> <<>>],
     label  |-> [dtype |-> "int64",   vals |-> <<>>]]

\* ------------------------------------------------------ ToySine.process_dataset
\* TensorDataset(torch.tensor(data).float(), torch.tensor(labels).long()):
\* item i is the pair (x[i], y[i]).
process_dataset(data, labels) ==
    [xdtype |-> "float32",
     ydtype |-> "int64",
     items  |-> [i \in 1..Len(data.vals) |->
                    [x |-> data.vals[i], y |-> labels.vals[i]]]]

\* ------------------------------------------- MultipleEnvironmentSine.__init__
\* a normalization with the statistics of the row's own domain
NormalizeDataPerDomain(pkl) ==
    [pkl EXCEPT !.data =
        [dtype |-> "float64",
         vals  |-> [i \in 1..Len(pkl.data.vals) |->
                      [c \in 1..NCols |->
                          Standardize(pkl.data.vals[i][c],
                              ColStats(BoolIndex(pkl.data.vals,
                                  [j \in 1..Len(pkl.domain.vals) |->
                                      pkl.domain.vals[j] = pkl.domain.vals[i]]), c))]]]]

\* lines 28-32: the normalization block, on the whole data array
NormalizeData(pkl) ==
    [pkl EXCEPT !.data =
        [dtype |-> "float64",
         vals  |-> [i \in 1..Len(pkl.data.vals) |->
                      [c \in 1..NCols |->
                          Standardize(pkl.data.vals[i][c],
                                      ColStats(pkl.data.vals, c))]]]]

\* an iteration whose mask is `<= domain_id`
DomainDatasetUpTo(pkl, domain_id) ==
    LET idx    == [i \in 1..Len(pkl.domain.vals) |-> pkl.domain.vals[i] <= domain_id]
        data   == AsType([dtype |-> pkl.data.dtype,
                          vals  |-> BoolIndex(pkl.data.vals, idx)], "float32")
        labels == AsType([dtype |-> pkl.label.dtype,
                          vals  |-> BoolIndex(pkl.label.vals, idx)], "int64")
    IN  process_dataset(data, labels)

\* lines 36-40: one iteration of the loop over the domains
DomainDataset(pkl, domain_id) ==
    LET idx    == [i \in 1..Len(pkl.domain.vals) |-> pkl.domain.vals[i] = domain_id]
        data   == AsType([dtype |-> pkl.data.dtype,
                          vals  |-> BoolIndex(pkl.data.vals, idx)], "float32")
        labels == AsType([dtype |-> pkl.label.dtype,
                          vals  |-> BoolIndex(pkl.label.vals, idx)], "int64")
    IN  process_dataset(data, labels)

\* lines 34-40: self.datasets after the loop over range(len(environments))
BuildDatasets(pkl, n) ==
    [k \in 1..n |-> DomainDataset(pkl, k - 1)]

InitSine ==
    /\ root \in {"None", "missing", "file"}
    /\ environments \in {NumEnvs, num_domains}
    /\ cache \in (IF root = "file" THEN Pickles ELSE {NoPickle})
    /\ pc = "start"
    /\ exc = "none"
    /\ attrs = {}
    /\ data_pkl = NoPickle
    /\ datasets = <<>>
    /\ load_calls = 0
    /\ norm_count = 0

\* a constructor start that does not look at root
CheckRootSkipped ==
    /\ pc = "start"
    /\ attrs' = attrs \cup {"Environments", "input_shape", "num_classes", "normalize"}
    /\ pc' = "load"
    /\ UNCHANGED <<exc, root, environments, cache, data_pkl, datasets,
                   load_calls, norm_count>>

\* lines 17-24
CheckRoot ==
    /\ pc = "start"
    /\ attrs' = attrs \cup {"Environments", "input_shape", "num_classes", "normalize"}
    /\ IF root = "None"
       THEN /\ pc' = "raised"
            /\ exc' = "ValueError"
       ELSE /\ pc' = "load"
            /\ UNCHANGED exc
    /\ UNCHANGED <<root, environments, cache, data_pkl, datasets,
                   load_calls, norm_count>>

\* line 26 and _load_cache, lines 42-49
LoadCache ==
    /\ pc = "load"
    /\ load_calls' = load_calls + 1
    /\ IF root = "file"
       THEN /\ data_pkl' = cache
            /\ attrs' = attrs \cup {"data_pkl"}
            /\ pc' = "normalize"
            /\ UNCHANGED exc
       ELSE /\ pc' = "raised"
            /\ exc' = "NotImplementedError"
            /\ UNCHANGED <<data_pkl, attrs>>
    /\ UNCHANGED <<root, environments, cache, datasets, norm_count>>

\* lines 28-32 (self.normalize is always True)
Normalize ==
    /\ pc = "normalize"
    /\ "normalize" \in attrs
    /\ data_pkl' = NormalizeData(data_pkl)
    /\ norm_count' = norm_count + 1
    /\ pc' = "split"
    /\ UNCHANGED <<root, environments, cache, exc, attrs, datasets, load_calls>>

\* lines 34-40
Split ==
    /\ pc = "split"
    /\ datasets' = BuildDatasets(data_pkl, environments)
    /\ attrs' = attrs \cup {"datasets"}
    /\ pc' = "done"
    /\ UNCHANGED <<root, environments, cache, exc, data_pkl, load_calls, norm_count>>

\* ======================================================================
\* network/model_func.py
\* ======================================================================

\* ------------------------------------------------------------------ bounds
MaxDim      == 2         \* n_inputs, mlp_width, output_dim are 1..MaxDim
MaxDepth    == 3         \* mlp_depth is 1..MaxDepth
MaxChannels == 4         \* input_shape[0] of an image extractor is 1..MaxChannels
MaxBatch    == 2         \* batch sizes are 1..MaxBatch
MaxWeight   == 2         \* conv1 weights of one input channel are 1..MaxWeight
ImgSize     == 4         \* height and width of the image inputs

\* ------------------------------------------------------- program constants
GroupNormGroups == 8     \* nn.GroupNorm(8, ...)

ArchNames == {"resnet18", "resnet50", "resnet101"}

\* a tensor: who it is (id) and its shape; 0 is the id of a computed tensor
Tensor(id, shape) == [id |-> id, shape |-> shape]
TensorError == [id |-> 0, shape |-> <<>>]

Last(s) == s[Len(s)]
ReplaceLast(s, v) == [s EXCEPT ![Len(s)] = v]

\* nn.Linear(i, o) and its application to a shape
Linear(i, o) == [in_features |-> i, out_features |-> o]
ApplyLinear(l, shape) ==
    IF shape # <<>> /\ Last(shape) = l.in_features
    THEN ReplaceLast(shape, l.out_features)
    ELSE <<>>

\* ------------------------------------------------------- LinearFeatExtractor
\* __init__, lines 15-26
LinearFeatExtractor(input_shape, output_dim, hparams) ==
    LET n_inputs == Last(input_shape)
        tail     == hparams.mlp_depth > 1
    IN  [kind       |-> "LinearFeatExtractor",
         input_shape |-> input_shape,
         num_layers |-> hparams.mlp_depth,
         members    |-> {"input", "n_outputs", "num_layers"}
                        \cup (IF tail THEN {"dropout", "hiddens", "output"} ELSE {}),
         input      |-> Linear(n_inputs, hparams.mlp_width),
         hiddens    |-> IF tail
                        THEN [k \in 1..(hparams.mlp_depth - 2) |->
                                 Linear(hparams.mlp_width, hparams.mlp_width)]
                        ELSE <<>>,
         output     |-> IF tail
                        THEN <<Linear(hparams.mlp_width, output_dim)>>
                        ELSE <<>>,
         n_outputs  |-> output_dim]

Op(name, i) == [op |-> name, i |-> i]

\* the body of `for hidden in self.hiddens`, lines 33-36, from hidden k on
RECURSIVE HiddenOps(_, _)
HiddenOps(m, k) ==
    IF k > Len(m.hiddens) THEN <<>>
    ELSE <<Op("hidden", k - 1), Op("dropout", 0), Op("relu", 0)>> \o HiddenOps(m, k + 1)

\* a forward pass that applies ReLU before dropout
LinearForwardOpsReluFirst(m) ==
    <<Op("input", 0)>> \o
    (IF m.num_layers > 1
     THEN <<Op("relu", 0), Op("dropout", 0)>> \o HiddenOps(m, 1) \o <<Op("output", 0)>>
     ELSE <<>>)

\* forward, lines 28-38: the operations applied to x, in order
LinearForwardOps(m) ==
    <<Op("input", 0)>> \o
    (IF m.num_layers > 1
     THEN <<Op("dropout", 0), Op("relu", 0)>> \o HiddenOps(m, 1) \o <<Op("output", 0)>>
     ELSE <<>>)

\* the shape after one operation
ApplyOp(m, o, shape) ==
    IF o.op = "input" THEN ApplyLinear(m.input, shape)
    ELSE IF o.op = "hidden" THEN ApplyLinear(m.hiddens[o.i + 1], shape)
    ELSE IF o.op = "output" THEN ApplyLinear(m.output[1], shape)
    ELSE shape

RECURSIVE ApplyOps(_, _, _)
ApplyOps(m, ops, shape) ==
    IF ops = <<>> THEN shape
    ELSE ApplyOps(m, Tail(ops), ApplyOp(m, Head(ops), shape))

LinearForward(m, x) ==
    [x |-> x, ops |-> LinearForwardOps(m),
     y |-> Tensor(0, ApplyOps(m, LinearForwardOps(m), x.shape))]

\* ----------------------------------------------------------------- MNIST_CNN
Conv2d(i, o, k, s, p) ==
    [in_channels |-> i, out_channels |-> o, kernel |-> k, stride |-> s, padding |-> p]

ApplyConv(c, shape) ==
    IF Len(shape) = 4 /\ shape[2] = c.in_channels
    THEN <<shape[1], c.out_channels,
           ((shape[3] + 2 * c.padding - c.kernel) \div c.stride) + 1,
           ((shape[4] + 2 * c.padding - c.kernel) \div c.stride) + 1>>
    ELSE <<>>

\* nn.GroupNorm(groups, channels) keeps the shape of a matching input
ApplyGroupNorm(channels, shape) ==
    IF Len(shape) = 4 /\ shape[2] = channels THEN shape ELSE <<>>

\* __init__, lines 51-64
MNIST_CNN(input_shape, output_dim, hparams) ==
    [kind        |-> "MNIST_CNN",
     input_shape |-> input_shape,
     conv1       |-> Conv2d(input_shape[1], 64, 3, 1, 1),
     conv2       |-> Conv2d(64, 128, 3, 2, 1),
     conv3       |-> Conv2d(128, 128, 3, 1, 1),
     conv4       |-> Conv2d(128, output_dim, 3, 1, 1),
     bn0         |-> 64,
     bn1         |-> 128,
     bn2         |-> 128,
     bn3         |-> output_dim,
     n_outputs   |-> output_dim]

\* forward, lines 66-73
CNNForward(m, x) ==
    LET s1 == ApplyGroupNorm(m.bn0, ApplyConv(m.conv1, x.shape))
        s2 == ApplyGroupNorm(m.bn1, ApplyConv(m.conv2, s1))
        s3 == ApplyGroupNorm(m.bn2, ApplyConv(m.conv3, s2))
        s4 == ApplyGroupNorm(m.bn3, ApplyConv(m.conv4, s3))
        s5 == IF s4 = <<>> THEN <<>> ELSE <<s4[1], s4[2], 1, 1>>     \* avgpool
        s6 == IF s5 = <<>> THEN <<>> ELSE <<s5[1], s5[2] * s5[3] * s5[4]>>  \* view
    IN  [x |-> x, ops |-> <<>>, y |-> Tensor(0, s6)]

\* -------------------------------------------------------------------- ResNet
\* torchvision.models.resnet18 / resnet50 as far as ResNet uses them: the
\* first convolution, the width of the features in front of fc, and fc.
TorchvisionResNet(name, weight) ==
    [name     |-> name,
     conv1    |-> [in_channels |-> 3, out_channels |-> 64, weight |-> weight],
     features |-> IF name = "resnet18" THEN 512 ELSE 2048,
     fc       |-> "Linear"]

\* the modules of the extractor: "" is the ResNet itself
Modules ==
    {"", "network", "network.conv1", "network.bn1", "network.layer1",
     "network.layer1.0", "network.layer1.0.conv1", "network.layer1.0.bn1",
     "network.layer1.0.downsample", "network.layer1.0.downsample.0",
     "network.layer1.0.downsample.1", "network.fc", "dropout"}

Parent(m) ==
    CASE m = "network" -> ""
      [] m = "dropout" -> ""
      [] m \in {"network.conv1", "network.bn1", "network.layer1", "network.fc"}
            -> "network"
      [] m = "network.layer1.0" -> "network.layer1"
      [] m \in {"network.layer1.0.conv1", "network.layer1.0.bn1",
                "network.layer1.0.downsample"} -> "network.layer1.0"
      [] m \in {"network.layer1.0.downsample.0", "network.layer1.0.downsample.1"}
            -> "network.layer1.0.downsample"
      [] OTHER -> "-"

BatchNorms == {"network.bn1", "network.layer1.0.bn1", "network.layer1.0.downsample.1"}

RECURSIVE Under(_, _)
\* m is r or a descendant of r
Under(m, r) == m = r \/ (m # "" /\ m # "-" /\ Under(Parent(m), r))

\* nn.Module.train(mode) called on module r: r and all its descendants
ModuleTrain(tr, r, mode) ==
    [m \in DOMAIN tr |-> IF Under(m, r) THEN mode ELSE tr[m]]

\* freeze_bn, lines 119-122
freeze_bn(tr) ==
    [m \in DOMAIN tr |->
        IF Under(m, "network") /\ m \in BatchNorms THEN FALSE ELSE tr[m]]

\* the train() of nn.Module, without the override
ResNetTrainNoFreeze(tr, mode) == ModuleTrain(tr, "", mode)

\* train, lines 112-117
ResNetTrain(tr, mode) == freeze_bn(ModuleTrain(tr, "", mode))

\* a width table that tests for 'resnet50' instead
ResNetOutputsBy50(arch) == IF arch = "resnet50" THEN 2048 ELSE 512

\* lines 80-85: the width announced for the architecture
ResNetOutputs(arch) == IF arch = "resnet18" THEN 512 ELSE 2048

\* a source channel that repeats the last channel instead of cycling
AdaptChannelClamped(tmp, i) == tmp[IF i < 3 THEN i ELSE 2]

\* line 99: the source channel of input channel i
AdaptChannel(tmp, i) == tmp[i % 3]

\* lines 89-99: conv1 after the channel adaptation
AdaptConv1(conv1, nc) ==
    IF nc # 3
    THEN LET tmp   == conv1.weight
             fresh == [i \in 0..(nc - 1) |-> 0]   \* the new nn.Conv2d
         IN  [in_channels  |-> nc,
              out_channels |-> 64,
              weight       |-> [i \in DOMAIN fresh |-> AdaptChannel(tmp, i)]]
    ELSE conv1

\* __init__, lines 78-106; weight is the conv1 weight torchvision delivers
ResNet(arch, input_shape, weight) ==
    LET network == IF arch = "resnet18"
                   THEN TorchvisionResNet("resnet18", weight)
                   ELSE TorchvisionResNet("resnet50", weight)
    IN  [kind        |-> "ResNet",
         arch        |-> arch,
         input_shape |-> input_shape,
         original    |-> network.conv1,
         network     |-> [network EXCEPT !.conv1 = AdaptConv1(network.conv1, input_shape[1]),
                                         !.fc = "Identity"],
         n_outputs   |-> ResNetOutputs(arch)]

\* training flags at the end of __init__: every module is built in training
\* mode, freeze_bn runs (line 105), then the dropout is added (line 106)
ResNetInitTraining ==
    [m \in Modules |->
        IF m = "dropout" THEN TRUE
        ELSE freeze_bn([k \in Modules \ {"dropout"} |-> TRUE])[m]]

\* forward, lines 108-110
ResNetForward(m, x) ==
    LET s == IF Len(x.shape) = 4 /\ x.shape[2] = m.network.conv1.in_channels
             THEN <<x.shape[1], m.network.features>>
             ELSE <<>>
    IN  [x |-> x, ops |-> <<>>, y |-> Tensor(0, s)]

\* factories, lines 135-148
resnet18(input_shape, output_dim, hparams, weight) == ResNet("resnet18", input_shape, weight)
resnet50(input_shape, output_dim, hparams, weight) == ResNet("resnet50", input_shape, weight)

\* ------------------------------------------------------------------ Identity
\* an Identity that announces the requested output_dim
IdentityOutputsRequested(input_shape, output_dim) == output_dim

\* line 129
IdentityOutputs(input_shape, output_dim) == Last(input_shape)

\* __init__, lines 127-129
Identity(input_shape, output_dim, hparams) ==
    [kind        |-> "Identity",
     input_shape |-> input_shape,
     output_dim  |-> output_dim,
     n_outputs   |-> IdentityOutputs(input_shape, output_dim)]

\* forward, lines 131-132
IdentityForward(m, x) == [x |-> x, ops |-> <<>>, y |-> x]

\* ------------------------------------------------------------------ actions
Dims     == 1..MaxDim
HParams  == [mlp_depth : 1..MaxDepth, mlp_width : Dims, mlp_dropout : {0}]
Weights  == [0..2 -> 1..MaxWeight]
ImgShapes == {<<nc, ImgSize, ImgSize>> : nc \in 1..MaxChannels}
NoOut    == [x |-> TensorError, ops |-> <<>>, y |-> TensorError]

NewLinear ==
    /\ net.kind = "none"
    /\ \E n \in Dims, output_dim \in Dims, hparams \in HParams :
          net' = LinearFeatExtractor(<<1, n>>, output_dim, hparams)
    /\ UNCHANGED <<training, out, last_call>>

NewCNN ==
    /\ net.kind = "none"
    /\ \E input_shape \in ImgShapes, output_dim \in {GroupNormGroups, 2 * GroupNormGroups} :
          net' = MNIST_CNN(input_shape, output_dim, [mlp_depth |-> 1])
    /\ UNCHANGED <<training, out, last_call>>

NewResNet ==
    /\ net.kind = "none"
    /\ \E arch \in ArchNames, input_shape \in ImgShapes, weight \in Weights :
          net' = [via |-> "ResNet", output_dim |-> 0] @@ ResNet(arch, input_shape, weight)
    /\ training' = ResNetInitTraining
    /\ UNCHANGED <<out, last_call>>

NewResNet18 ==
    /\ net.kind = "none"
    /\ \E input_shape \in ImgShapes, output_dim \in Dims, weight \in Weights :
          net' = [via |-> "resnet18", output_dim |-> output_dim]
                 @@ resnet18(input_shape, output_dim, <<>>, weight)
    /\ training' = ResNetInitTraining
    /\ UNCHANGED <<out, last_call>>

NewResNet50 ==
    /\ net.kind = "none"
    /\ \E input_shape \in ImgShapes, output_dim \in Dims, weight \in Weights :
          net' = [via |-> "resnet50", output_dim |-> output_dim]
                 @@ resnet50(input_shape, output_dim, <<>>, weight)
    /\ training' = ResNetInitTraining
    /\ UNCHANGED <<out, last_call>>

NewIdentity ==
    /\ net.kind = "none"
    /\ \E n \in Dims, output_dim \in Dims, hparams \in HParams :
          net' = Identity(<<1, n>>, output_dim, hparams)
    /\ UNCHANGED <<training, out, last_call>>

\* net(x) for a batch x of the constructed input shape
Forward ==
    /\ net.kind # "none"
    /\ \E b \in 1..MaxBatch, id \in 1..2 :
          out' = CASE net.kind = "LinearFeatExtractor" ->
                        LinearForward(net, Tensor(id, <<b, Last(net.input_shape)>>))
                   [] net.kind = "MNIST_CNN" ->
                        CNNForward(net, Tensor(id, <<b>> \o net.input_shape))
                   [] net.kind = "ResNet" ->
                        ResNetForward(net, Tensor(id, <<b>> \o net.input_shape))
                   [] net.kind = "Identity" ->
                        IdentityForward(net, Tensor(id, <<b, Last(net.input_shape)>>))
    /\ UNCHANGED <<net, training, last_call>>

\* ResNet.train(mode)
Train ==
    /\ net.kind = "ResNet"
    /\ \E mode \in BOOLEAN :
          /\ training' = ResNetTrain(training, mode)
          /\ last_call' = IF mode THEN "train(True)" ELSE "train(False)"
    /\ UNCHANGED <<net, out>>

\* ResNet.eval(): nn.Module.eval is self.train(False)
Eval ==
    /\ net.kind = "ResNet"
    /\ training' = ResNetTrain(training, FALSE)
    /\ last_call' = "eval"
    /\ UNCHANGED <<net, out>>

\* ======================================================================
\* Properties of the loader (checked under Spec)
\* ======================================================================
NSamples == Len(cache.domain.vals)

\* the cache indices of the samples of domain d
InDomain(d) == {i \in 1..NSamples : cache.domain.vals[i] = d}

\* the cache indices of the samples whose domain is one of range(N)
InRange == {i \in 1..NSamples : cache.domain.vals[i] \in 0..(environments - 1)}

\* the k-th smallest element of the index set I
KthIndex(I, k) == CHOOSE i \in I : Cardinality({j \in I : j <= i}) = k

\* the sample at cache index i as self.data_pkl holds it
ItemAt(i) == [x |-> data_pkl.data.vals[i], y |-> data_pkl.label.vals[i]]

\* how often the item v is stored in self.datasets
Stored(v) ==
    SumSeq([d \in 1..Len(datasets) |->
              Cardinality({k \in 1..Len(datasets[d].items) : datasets[d].items[k] = v})])

\* how often the item v occurs among the cache indices I
Cached(v, I) == Cardinality({i \in I : ItemAt(i) = v})

TotalSize == SumSeq([d \in 1..Len(datasets) |-> Len(datasets[d].items)])

\* C1: after construction over N environments self.datasets has N entries,
\* and entry d holds exactly the cached samples of domain d, in cache order,
\* every data row paired with the label of the same cache index.
C1_EntriesAreDomainSamples ==
    pc = "done" =>
        /\ Len(datasets) = environments
        /\ \A d \in 0..(environments - 1) :
              LET ds == datasets[d + 1]
              IN  /\ Len(ds.items) = Cardinality(InDomain(d))
                  /\ \A k \in 1..Len(ds.items) :
                        /\ ds.items[k].x = data_pkl.data.vals[KthIndex(InDomain(d), k)]
                        /\ ds.items[k].y = cache.label.vals[KthIndex(InDomain(d), k)]

C1_Witness ==
    /\ pc = "done"
    /\ environments = num_domains
    /\ Len(datasets) = num_domains
    /\ Len(datasets[2].items) = 2
    /\ datasets[2].items[1].x # datasets[2].items[2].x
    /\ datasets[2].items[1].y # datasets[2].items[2].y

\* C2 as stated: for every cache content every cached sample is stored in
\* exactly one per-domain dataset, and the sizes sum to the number of cached
\* samples.
C2_AllSamplesPartitioned ==
    pc = "done" =>
        /\ TotalSize = NSamples
        /\ \A i \in 1..NSamples : Stored(ItemAt(i)) = Cached(ItemAt(i), 1..NSamples)

\* C2 amended: the samples whose domain is in 0..N-1 are partitioned (each is
\* stored once, in the entry of its domain), the samples of any other domain
\* are stored nowhere, and the sizes sum to the number of samples in range.
C2_InRangeSamplesPartitioned ==
    pc = "done" =>
        /\ TotalSize = Cardinality(InRange)
        /\ \A d \in 0..(environments - 1) :
              Len(datasets[d + 1].items) = Cardinality(InDomain(d))
        /\ \A i \in 1..NSamples : Stored(ItemAt(i)) = Cached(ItemAt(i), InRange)

C2_Witness ==
    /\ pc = "done"
    /\ NSamples = 2
    /\ Cardinality(InRange) = 1
    /\ TotalSize = 1

\* C8: with root None the constructor raises ValueError without calling
\* _load_cache; with a root that does not exist it raises NotImplementedError;
\* in both cases nothing is normalized and self.datasets is never assigned.
C8_FailureModes ==
    /\ root = "None" =>
          /\ load_calls = 0
          /\ pc # "start" => (pc = "raised" /\ exc = "ValueError")
    /\ root = "missing" =>
          /\ load_calls <= 1
          /\ pc \notin {"start", "load"} => (pc = "raised" /\ exc = "NotImplementedError")
    /\ root \in {"None", "missing"} =>
          /\ norm_count = 0
          /\ "datasets" \notin attrs
          /\ datasets = <<>>
          /\ data_pkl = NoPickle

C8_Witness ==
    /\ root = "missing"
    /\ pc = "raised"
    /\ exc = "NotImplementedError"
    /\ load_calls = 1

\* the value z is (v - mean) / std for the column statistics of all cached
\* samples: n = number of samples, s = sum, ss = sum of squares of column c
IsPooledNormalized(z, v, c) ==
    LET n  == NSamples
        s  == SumSeq([i \in 1..n |-> cache.data.vals[i][c].num])
        ss == SumSeq([i \in 1..n |-> cache.data.vals[i][c].num * cache.data.vals[i][c].num])
    IN  IF n * ss = s * s
        THEN z.den2 = 0
        ELSE /\ z.den2 > 0
             /\ z.num * z.num * (n * ss - s * s) = (n * v.num - s) * (n * v.num - s) * z.den2
             /\ Sgn(z.num) = Sgn(n * v.num - s)

\* C9: normalization runs once, on the whole array and before the split; the
\* statistics are per column over all cached samples (whatever their domain),
\* and every value stored in a per-domain dataset is the normalized value.
C9_PooledNormalizationBeforeSplit ==
    /\ norm_count <= 1
    /\ "datasets" \in attrs => norm_count = 1
    /\ pc = "done" =>
          \A d \in 0..(environments - 1) :
             /\ datasets[d + 1].xdtype = "float32"
             /\ \A k \in 1..Len(datasets[d + 1].items) :
                   \A c \in 1..NCols :
                      IsPooledNormalized(
                          datasets[d + 1].items[k].x[c],
                          cache.data.vals[KthIndex(InDomain(d), k)][c], c)

C9_Witness ==
    /\ pc = "done"
    /\ environments = NumEnvs
    /\ \E i \in 1..NSamples : cache.domain.vals[i] = NumEnvs
    /\ \E k \in 1..Len(datasets[1].items) :
          /\ datasets[1].items[k].x[1].den2 # 0
          /\ datasets[1].items[k].x[1].num # 0

\* ======================================================================
\* Properties of the feature extractors (checked under SpecNet)
\* ======================================================================
Called == out # NoOut

\* C3 as stated: for every extractor and every input batch of the constructed
\* input shape, the feature dimension of forward's result equals n_outputs.
C3_OutputWidthIsNOutputs ==
    (net.kind # "none" /\ Called) =>
        /\ out.y.shape # <<>>
        /\ Last(out.y.shape) = net.n_outputs

\* C4: in every state of a ResNet (after construction and after any sequence
\* of train(True), train(False), eval()) every BatchNorm2d of its network is
\* in eval mode.
C4_BatchNormFrozen ==
    net.kind = "ResNet" =>
        \A m \in DOMAIN training :
            (m \in BatchNorms /\ Under(m, "network")) => ~training[m]

C4_Witness ==
    /\ net.kind = "ResNet"
    /\ last_call = "train(True)"
    /\ training[""]
    /\ training["dropout"]
    /\ training["network.layer1.0.conv1"]
    /\ ~training["network.layer1.0.downsample.1"]

\* C5: for nc # 3 conv1 has nc input and 64 output channels and input channel
\* i carries the original weights of channel i mod 3; for nc = 3 conv1 is the
\* original one.
C5_ChannelAdaptation ==
    net.kind = "ResNet" =>
        LET nc    == net.input_shape[1]
            conv1 == net.network.conv1
        IN  IF nc # 3
            THEN /\ conv1.in_channels = nc
                 /\ conv1.out_channels = 64
                 /\ DOMAIN conv1.weight = 0..(nc - 1)
                 /\ \A i \in 0..(nc - 1) : conv1.weight[i] = net.original.weight[i % 3]
            ELSE conv1 = net.original

C5_Witness ==
    /\ net.kind = "ResNet"
    /\ net.input_shape[1] = 4
    /\ net.original.weight[0] # net.original.weight[2]
    /\ net.network.conv1.weight[3] = net.original.weight[0]

\* C6: Identity.forward returns x itself, and n_outputs is input_shape[-1]
\* whatever output_dim and hparams were.
C6_IdentityPassthrough ==
    net.kind = "Identity" =>
        /\ net.n_outputs = Last(net.input_shape)
        /\ Called => out.y = out.x

C6_Witness ==
    /\ net.kind = "Identity"
    /\ net.output_dim # Last(net.input_shape)
    /\ Called
    /\ out.x.id = 2
    /\ out.y.id = 2

\* the j-th of d linear layers: input, the d-2 hidden layers, output
LayerOp(j, d) ==
    IF j = 1 THEN Op("input", 0)
    ELSE IF j = d THEN Op("output", 0)
    ELSE Op("hidden", j - 2)

\* C7: for depth d >= 1 forward applies d linear layers in the order input,
\* hidden 0..d-3, output; each but the last is followed by dropout and then
\* ReLU, nothing follows the last; for d = 1 there is only the input layer.
C7_ConditionalDepthForward ==
    (net.kind = "LinearFeatExtractor" /\ Called) =>
        LET d == net.num_layers
        IN  /\ Len(out.ops) = 3 * d - 2
            /\ \A j \in 1..d :
                  /\ out.ops[3 * j - 2] = LayerOp(j, d)
                  /\ j < d => /\ out.ops[3 * j - 1] = Op("dropout", 0)
                              /\ out.ops[3 * j] = Op("relu", 0)
            /\ d = 1 => /\ out.ops = <<Op("input", 0)>>
                        /\ net.members \cap {"dropout", "hiddens", "output"} = {}
                        /\ net.hiddens = <<>>
                        /\ net.output = <<>>
            /\ d > 1 => Len(net.hiddens) = d - 2

C7_Witness ==
    /\ net.kind = "LinearFeatExtractor"
    /\ net.num_layers = 3
    /\ Called
    /\ Len(out.ops) = 7

NetIdle ==
    /\ net = [kind |-> "none"]
    /\ training = <<>>
    /\ out = NoOut
    /\ last_call = "none"

SineIdle ==
    /\ root = "None"
    /\ environments = NumEnvs
    /\ cache = NoPickle
    /\ pc = "idle"
    /\ exc = "none"
    /\ attrs = {}
    /\ data_pkl = NoPickle
    /\ datasets = <<>>
    /\ load_calls = 0
    /\ norm_count = 0

Init == InitSine /\ NetIdle

Next ==
    \/ CheckRoot /\ UNCHANGED netVars
    \/ LoadCache /\ UNCHANGED netVars
    \/ Normalize /\ UNCHANGED netVars
    \/ Split /\ UNCHANGED netVars

Spec == Init /\ [][Next]_vars

InitNet == SineIdle /\ NetIdle

NextNet ==
    \/ NewLinear /\ UNCHANGED sineVars
    \/ NewCNN /\ UNCHANGED sineVars
    \/ NewResNet /\ UNCHANGED sineVars
    \/ NewResNet18 /\ UNCHANGED sineVars
    \/ NewResNet50 /\ UNCHANGED sineVars
    \/ NewIdentity /\ UNCHANGED sineVars
    \/ Forward /\ UNCHANGED sineVars
    \/ Train /\ UNCHANGED sineVars
    \/ Eval /\ UNCHANGED sineVars

SpecNet == InitNet /\ [][NextNet]_vars

====
